---- MODULE Spec2Model ----
(***************************************************************************)
(* Middleware chain of @loopback/rest: invokeMiddleware runs the entries   *)
(* of one extension point as nested continuations; an entry is either a    *)
(* native middleware (context, next) or an Express handler wrapped by      *)
(* toInterceptor, which races the handler's callback against the 'close'   *)
(* event of the request context.                                           *)
(***************************************************************************)
EXTENDS Integers, Sequences, FiniteSets, TLC

(* ------------------------------ bounds -------------------------------- *)
NumEntries == 2
NumUsers == 3
MaxSignals == 2
MaxClose == 1
MaxBindings == 3

Idx == 1..NumEntries
Kinds == {"native", "legacy"}

(* ------------------------------ values -------------------------------- *)
Val(n, i) == [n |-> n, i |-> i]
Undefined == Val("undefined", 0)
Response == Val("response", 0)
OwnVal(i) == Val("own", i)
OwnErr(i) == Val("ownErr", i)
HandlerErrs == {Val("cbErr", 1), Val("cbErr", 2)}
ThrownErrs == {Val("thrown", 1)}
InvalidChainUsage == Val("InvalidChainUsage", 0)

Outcome(t, v) == [t |-> t, v |-> v]
NoOutcome == Outcome("none", Val("none", 0))
Returned(v) == Outcome("val", v)
Failed(e) == Outcome("err", e)

(* a promise: pending, resolved or rejected with an error *)
Pending == [st |-> "pending", e |-> Val("none", 0)]
Resolved == [st |-> "resolved", e |-> Val("none", 0)]
Rejected(e) == [st |-> "rejected", e |-> e]

VARIABLES
  kind,        \* kind[i]: entry i is a native middleware or a wrapped handler
  chainState,  \* NotStarted, Running, Completed, ShortCircuited, Errored
  cursor,      \* index of the last entry the chain has started
  result,      \* outcome of the invoker call
  status,      \* position of entry i in its own code
  started,     \* number of times entry i was invoked
  nextCount,   \* number of times entry i invoked next()
  received,    \* what next() delivered to entry i
  outcome,     \* what entry i returned or threw
  settled,     \* number of times entry i returned or threw
  toProceed,   \* flag of the adapter invocation of entry i
  handling,    \* promise settled by the handler's callback or its throw
  finishing,   \* pEvent(requestCtx, 'close'): none, pending, emitted, resolved
  race,        \* Promise.race([handling, finishing])
  rq,          \* reactions of the race not yet run, in microtask order
  log,         \* history of entry i's adapter: the signals it has seen
               \* (ok, err, throw, close) and its own steps (fin, resume)
  closeCount,  \* number of 'close' events emitted on the request context
  ctx,         \* bindings of the context, in registration order
  defaultOptions, \* InvokeMiddlewareProvider.defaultOptions, as configured
  bindingTag,  \* extensionPoint tag of the invoker's own binding
  call,        \* the current call of the invoker
  overrides,   \* whether some earlier call carried its own orderedGroups
  lastReg,     \* what the last registration call returned or threw
  req,         \* req[r]: the adapter invocation serving request r
  flag,        \* flag[s]: the toProceed variable stored in slot s
  repo,        \* the users the user repository holds
  auth,        \* the current call of LocalAuthStrategy.verify
  doneLog      \* the invocations of done made for the current call

chainVars == <<chainState, cursor, result, status, started, nextCount,
               received, outcome, settled>>
adapterVars == <<toProceed, handling, finishing, race, rq, log>>
invokerVars == <<ctx, defaultOptions, bindingTag, call, overrides, lastReg>>
twoVars == <<req, flag>>
authVars == <<repo, auth, doneLog>>
otherVars == <<invokerVars, twoVars, authVars>>
vars == <<kind, chainVars, adapterVars, closeCount, otherVars>>

Sig(k, e) == [k |-> k, e |-> e]
NoErr == Val("none", 0)

(* --------------------------- chain engine ----------------------------- *)
FirstStatus(k) == IF k = "legacy" THEN "init" ELSE "running"

Terminal(o) ==
  IF o.t = "err" THEN "Errored"
  ELSE IF nextCount[NumEntries] >= 1 THEN "Completed" ELSE "ShortCircuited"

(* variant: every call of next() runs the downstream entry again *)
ChainNextNoGuard(i) ==
  /\ chainState = "Running"
  /\ nextCount' = [nextCount EXCEPT ![i] = IF @ >= 1 THEN 2 ELSE 1]
  /\ UNCHANGED <<chainState, result>>
  /\ IF i = NumEntries
       THEN /\ status' = [status EXCEPT ![i] = "resumed"]
            /\ received' = [received EXCEPT ![i] = Returned(Undefined)]
            /\ UNCHANGED <<cursor, started>>
       ELSE /\ status' = [status EXCEPT ![i] = "awaitNext",
                                        ![i + 1] = FirstStatus(kind[i + 1])]
            /\ started' = [started EXCEPT ![i + 1] = IF @ >= 1 THEN 2 ELSE 1]
            /\ cursor' = i + 1
            /\ UNCHANGED received
  /\ UNCHANGED <<outcome, settled>>

(* entry i invokes next(): the first call moves the cursor to entry i+1,   *)
(* or yields the end-of-chain value when i is last; any further call is a  *)
(* contract violation                                                      *)
ChainNext(i) ==
  /\ chainState = "Running"
  /\ IF nextCount[i] >= 1
       THEN /\ nextCount' = [nextCount EXCEPT ![i] = 2]
            /\ chainState' = "Errored"
            /\ result' = Failed(InvalidChainUsage)
            /\ UNCHANGED <<cursor, status, started, received>>
       ELSE /\ nextCount' = [nextCount EXCEPT ![i] = 1]
            /\ UNCHANGED <<chainState, result>>
            /\ IF i = NumEntries
                 THEN /\ status' = [status EXCEPT ![i] = "resumed"]
                      /\ received' = [received EXCEPT ![i] = Returned(Undefined)]
                      /\ UNCHANGED <<cursor, started>>
                 ELSE /\ status' = [status EXCEPT ![i] = "awaitNext",
                                                  ![i + 1] = FirstStatus(kind[i + 1])]
                      /\ started' = [started EXCEPT ![i + 1] = @ + 1]
                      /\ cursor' = i + 1
                      /\ UNCHANGED received
  /\ UNCHANGED <<outcome, settled>>

(* variant: an entry that returns without next() falls through to the     *)
(* entry after it                                                          *)
CompleteFallThrough(i, o) ==
  /\ chainState = "Running"
  /\ outcome' = [outcome EXCEPT ![i] = o]
  /\ settled' = [settled EXCEPT ![i] = @ + 1]
  /\ IF nextCount[i] = 0 /\ i < NumEntries
       THEN /\ status' = [status EXCEPT ![i] = "done",
                                        ![i + 1] = FirstStatus(kind[i + 1])]
            /\ started' = [started EXCEPT ![i + 1] = 1]
            /\ cursor' = i + 1
            /\ UNCHANGED <<result, chainState, received>>
       ELSE /\ UNCHANGED <<cursor, started>>
            /\ IF i = 1
                 THEN /\ status' = [status EXCEPT ![i] = "done"]
                      /\ result' = o
                      /\ chainState' = Terminal(o)
                      /\ UNCHANGED received
                 ELSE /\ status' = [status EXCEPT ![i] = "done",
                                                  ![i - 1] = "resumed"]
                      /\ received' = [received EXCEPT ![i - 1] = o]
                      /\ UNCHANGED <<result, chainState>>
  /\ UNCHANGED nextCount

(* entry i settles with outcome o, which its caller receives *)
Complete(i, o) ==
  /\ chainState = "Running"
  /\ outcome' = [outcome EXCEPT ![i] = o]
  /\ settled' = [settled EXCEPT ![i] = @ + 1]
  /\ IF i = 1
       THEN /\ status' = [status EXCEPT ![i] = "done"]
            /\ result' = o
            /\ chainState' = Terminal(o)
            /\ UNCHANGED received
       ELSE /\ status' = [status EXCEPT ![i] = "done", ![i - 1] = "resumed"]
            /\ received' = [received EXCEPT ![i - 1] = o]
            /\ UNCHANGED <<result, chainState>>
  /\ UNCHANGED <<cursor, started, nextCount>>

(* variant: every entry of the chain is invoked at once *)
invokeMiddlewareAll ==
  /\ chainState = "NotStarted"
  /\ chainState' = "Running"
  /\ cursor' = NumEntries
  /\ started' = [i \in Idx |-> 1]
  /\ status' = [i \in Idx |-> FirstStatus(kind[i])]
  /\ UNCHANGED <<otherVars, kind, result, nextCount, received, outcome, settled,
                 adapterVars, closeCount>>

(* invokeMiddleware: build the chain and invoke its first entry *)
invokeMiddleware ==
  /\ chainState = "NotStarted"
  /\ chainState' = "Running"
  /\ cursor' = 1
  /\ started' = [started EXCEPT ![1] = @ + 1]
  /\ status' = [status EXCEPT ![1] = FirstStatus(kind[1])]
  /\ UNCHANGED <<otherVars, kind, result, nextCount, received, outcome, settled,
                 adapterVars, closeCount>>

(* ------------------------- native middleware -------------------------- *)
NativeCallNext(i) ==
  /\ kind[i] = "native"
  /\ status[i] = "running"
  /\ ChainNext(i)
  /\ UNCHANGED <<otherVars, kind, adapterVars, closeCount>>

NativeCallNextAgain(i) ==
  /\ kind[i] = "native"
  /\ status[i] \in {"awaitNext", "resumed"}
  /\ nextCount[i] = 1
  /\ ChainNext(i)
  /\ UNCHANGED <<otherVars, kind, adapterVars, closeCount>>

NativeReturn(i) ==
  /\ kind[i] = "native"
  /\ status[i] \in {"running", "resumed"}
  /\ \E v \in {OwnVal(i)} \cup
              (IF received[i].t = "val" THEN {received[i].v} ELSE {}) :
       Complete(i, Returned(v))
  /\ UNCHANGED <<otherVars, kind, adapterVars, closeCount>>

NativeThrow(i) ==
  /\ kind[i] = "native"
  /\ status[i] \in {"running", "resumed"}
  /\ \E e \in {OwnErr(i)} \cup
              (IF received[i].t = "err" THEN {received[i].v} ELSE {}) :
       Complete(i, Failed(e))
  /\ UNCHANGED <<otherVars, kind, adapterVars, closeCount>>

(* --------------------- toInterceptor: the adapter --------------------- *)
(* a promise settles once; later resolve/reject calls are ignored *)
Settle(p, q) == IF p.st = "pending" THEN q ELSE p

(* variant: the callback resolves `handling` whatever it is given *)
cbHandlingSwallow(h, err) == Settle(h, Resolved)

(* variant: the flag follows the last callback *)
cbToProceedReset(tp, err) == err = NoErr

(* the callback handed to handlerFn: err != null rejects `handling`,      *)
(* otherwise it sets toProceed and resolves `handling`                     *)
cbHandling(h, err) ==
  IF err # NoErr THEN Settle(h, Rejected(err)) ELSE Settle(h, Resolved)

cbToProceed(tp, err) == IF err # NoErr THEN tp ELSE TRUE

(* variant: the race is given an already resolved promise *)
RaceAttachResolved(h, f) == <<"f">>

(* Promise.race([handling, finishing]) subscribes to `handling` first, so  *)
(* the reaction of an already settled `handling` runs first                *)
RaceAttach(h, f) ==
  (IF h.st # "pending" THEN <<"h">> ELSE <<>>) \o
  (IF f = "resolved" THEN <<"f">> ELSE <<>>)

(* the race takes the outcome of the first reaction that runs *)
RaceTake(r, who, h) ==
  IF r.st # "pending" THEN r
  ELSE IF who = "h" THEN h ELSE Resolved

(* variant: the adapter proceeds whenever the race was not rejected *)
AfterRaceAlwaysNext(r, tp) == IF r.st = "rejected" THEN "throw" ELSE "next"

(* what the adapter does once `await Promise.race(...)` resumes *)
AfterRace(r, tp) ==
  IF r.st = "rejected" THEN "throw"
  ELSE IF tp THEN "next" ELSE "return"

(* variant: the adapter returns the response after next() *)
AfterNextResponse(o) == Returned(Response)

(* variant: the adapter catches what next() throws and returns the response *)
AfterNextSwallow(o) == IF o.t = "err" THEN Returned(Response) ELSE o

(* `return val` after `await next()` *)
AfterNext(o) == o

Append1(f, i, x) == [f EXCEPT ![i] = Append(@, x)]

(* a promise of the race settles: its reaction is queued; once the race   *)
(* is settled a reaction has no effect and is left out                     *)
Subscribed(q, r, i, who) ==
  IF r[i].st = "pending" THEN Append1(q, i, who) ELSE q

HandlerStarted(i) == kind[i] = "legacy" /\ status[i] \notin {"idle", "init"}

(* positions of the log that hold a signal of one of the kinds ks *)
Pos(i, ks) == {n \in 1..Len(log[i]) : log[i][n].k \in ks}
HandlerKinds == {"ok", "err", "throw"}

RECURSIVE SignalsUpTo(_)
SignalsUpTo(i) ==
  IF i = 0 THEN 0 ELSE Cardinality(Pos(i, HandlerKinds)) + SignalsUpTo(i - 1)
(* number of callback invocations and throws of this request so far *)
Signals == SignalsUpTo(NumEntries)

(* variant: the handler is called before the 'close' listener exists *)
AdapterStartLate(i) ==
  /\ kind[i] = "legacy"
  /\ status[i] = "init"
  /\ status' = [status EXCEPT ![i] = "handler"]
  /\ toProceed' = [toProceed EXCEPT ![i] = FALSE]
  /\ handling' = [handling EXCEPT ![i] = Pending]
  /\ UNCHANGED <<otherVars, kind, chainState, cursor, result, started, nextCount,
                 received, outcome, settled, finishing, race, rq, log,
                 closeCount>>

(* context.get(RestBindings.Http.CONTEXT) resolved: install the 'close'    *)
(* listener, create `handling` and call handlerFn                          *)
AdapterStart(i) ==
  /\ kind[i] = "legacy"
  /\ status[i] = "init"
  /\ status' = [status EXCEPT ![i] = "handler"]
  /\ toProceed' = [toProceed EXCEPT ![i] = FALSE]
  /\ finishing' = [finishing EXCEPT ![i] = "pending"]
  /\ handling' = [handling EXCEPT ![i] = Pending]
  /\ UNCHANGED <<otherVars, kind, chainState, cursor, result, started, nextCount,
                 received, outcome, settled, race, rq, log, closeCount>>

(* variant: the callback itself invokes next() *)
CallbackCallsNext(i, err) ==
  /\ HandlerStarted(i)
  /\ Signals < MaxSignals
  /\ toProceed' = [toProceed EXCEPT ![i] = cbToProceed(@, err)]
  /\ handling' = [handling EXCEPT ![i] = cbHandling(@, err)]
  /\ rq' = IF status[i] # "handler" /\ handling[i].st = "pending"
             THEN Subscribed(rq, race, i, "h") ELSE rq
  /\ log' = Append1(log, i, Sig(IF err = NoErr THEN "ok" ELSE "err", err))
  /\ IF err = NoErr /\ chainState = "Running"
       THEN ChainNext(i)
       ELSE UNCHANGED chainVars
  /\ UNCHANGED <<otherVars, kind, finishing, race, closeCount>>

(* the handler invokes its callback, with an error or without *)
Callback(i, err) ==
  /\ HandlerStarted(i)
  /\ Signals < MaxSignals
  /\ toProceed' = [toProceed EXCEPT ![i] = cbToProceed(@, err)]
  /\ handling' = [handling EXCEPT ![i] = cbHandling(@, err)]
  /\ rq' = IF status[i] # "handler" /\ handling[i].st = "pending"
             THEN Subscribed(rq, race, i, "h") ELSE rq
  /\ log' = Append1(log, i, Sig(IF err = NoErr THEN "ok" ELSE "err", err))
  /\ UNCHANGED <<otherVars, kind, chainVars, finishing, race, closeCount>>

(* 'close' is emitted on the request context: every installed listener     *)
(* sees it once; an event emitted before the listener is installed is not  *)
(* seen. The request context is taken to emit no 'error' event.            *)
Close ==
  /\ closeCount < MaxClose
  /\ closeCount' = closeCount + 1
  /\ finishing' = [i \in Idx |->
                     IF finishing[i] = "pending" THEN "emitted" ELSE finishing[i]]
  /\ log' = [i \in Idx |->
               IF finishing[i] = "pending"
                 THEN Append(log[i], Sig("close", NoErr)) ELSE log[i]]
  /\ UNCHANGED <<otherVars, kind, chainVars, toProceed, handling, race, rq>>

(* handlerFn returns: Promise.race subscribes and the adapter awaits *)
HandlerReturn(i) ==
  /\ kind[i] = "legacy"
  /\ status[i] = "handler"
  /\ status' = [status EXCEPT ![i] = "racing"]
  /\ rq' = [rq EXCEPT ![i] = RaceAttach(handling[i], finishing[i])]
  /\ UNCHANGED <<otherVars, kind, chainState, cursor, result, started, nextCount,
                 received, outcome, settled, toProceed, handling, finishing, race,
                 log, closeCount>>

(* handlerFn throws inside the promise executor: `handling` is rejected *)
HandlerThrow(i, e) ==
  /\ kind[i] = "legacy"
  /\ status[i] = "handler"
  /\ Signals < MaxSignals
  /\ status' = [status EXCEPT ![i] = "racing"]
  /\ handling' = [handling EXCEPT ![i] = Settle(@, Rejected(e))]
  /\ rq' = [rq EXCEPT ![i] = RaceAttach(handling'[i], finishing[i])]
  /\ log' = Append1(log, i, Sig("throw", e))
  /\ UNCHANGED <<otherVars, kind, chainState, cursor, result, started, nextCount,
                 received, outcome, settled, toProceed, finishing, race, closeCount>>

(* the promise returned by pEvent settles one tick after the event *)
FinishingSettle(i) ==
  /\ finishing[i] = "emitted"
  /\ status[i] # "handler"
  /\ finishing' = [finishing EXCEPT ![i] = "resolved"]
  /\ rq' = Subscribed(rq, race, i, "f")
  /\ log' = Append1(log, i, Sig("fin", NoErr))
  /\ UNCHANGED <<otherVars, kind, chainVars, toProceed, handling, race, closeCount>>

(* the first reaction of the race runs and settles it; the reactions      *)
(* behind it find the race settled and change nothing                      *)
RaceSettle(i) ==
  /\ rq[i] # <<>>
  /\ race' = [race EXCEPT ![i] = RaceTake(@, Head(rq[i]), handling[i])]
  /\ rq' = [rq EXCEPT ![i] = <<>>]
  /\ UNCHANGED <<otherVars, kind, chainVars, toProceed, handling, finishing, log,
                 closeCount>>

(* `await Promise.race(...)` resumes *)
AdapterResume(i) ==
  /\ kind[i] = "legacy"
  /\ status[i] = "racing"
  /\ race[i].st # "pending"
  /\ LET what == AfterRace(race[i], toProceed[i]) IN
       CASE what = "throw" -> Complete(i, Failed(race[i].e))
         [] what = "next" -> ChainNext(i)
         [] what = "return" -> Complete(i, Returned(Response))
  /\ log' = Append1(log, i, Sig("resume", NoErr))
  /\ UNCHANGED <<otherVars, kind, toProceed, handling, finishing, race, rq, closeCount>>

(* `await next()` resumes: the adapter returns or rethrows what it got *)
AdapterReturn(i) ==
  /\ kind[i] = "legacy"
  /\ status[i] = "resumed"
  /\ Complete(i, AfterNext(received[i]))
  /\ UNCHANGED <<otherVars, kind, adapterVars, closeCount>>

(* ------------- one adapter serving two requests at a time ------------- *)
Requests == {1, 2}
IdleReq ==
  [st |-> "idle", handling |-> Pending, finishing |-> "none",
   race |-> Pending, rq |-> <<>>, nexts |-> 0, out |-> NoOutcome,
   sigs |-> <<>>, overlap |-> FALSE]

(* an adapter whose toProceed is declared outside the returned function *)
SlotShared(r) == 1

(* `let toProceed = false` is a local of the invocation: one per request *)
Slot(r) == r

InFlight(r) == req[r].st \notin {"idle", "done"}
HandlerSigs(r) ==
  {n \in 1..Len(req[r].sigs) : req[r].sigs[n].k \in HandlerKinds}
TwoSignals ==
  Cardinality(HandlerSigs(1)) + Cardinality(HandlerSigs(2))

(* the chain of request r invokes the adapter: lines 251-257 *)
TwoStart(r) ==
  /\ req[r].st = "idle"
  /\ req' = [req EXCEPT ![r].st = "handler",
                        ![r].finishing = "pending",
                        ![r].handling = Pending,
                        ![r].overlap = \E q \in Requests \ {r} : InFlight(q)]
  /\ flag' = [flag EXCEPT ![Slot(r)] = FALSE]
  /\ UNCHANGED <<invokerVars, authVars, kind, chainVars, adapterVars, closeCount>>

(* the handler invokes the callback it was given for request r *)
TwoCallback(r, err) ==
  /\ req[r].st \notin {"idle"}
  /\ TwoSignals < MaxSignals
  /\ flag' = [flag EXCEPT ![Slot(r)] = cbToProceed(@, err)]
  /\ req' = [req EXCEPT
               ![r].handling = cbHandling(@, err),
               ![r].rq = IF /\ req[r].st # "handler"
                            /\ req[r].handling.st = "pending"
                            /\ req[r].race.st = "pending"
                           THEN Append(@, "h") ELSE @,
               ![r].sigs = Append(@, Sig(IF err = NoErr THEN "ok" ELSE "err",
                                         err))]
  /\ UNCHANGED <<invokerVars, authVars, kind, chainVars, adapterVars, closeCount>>

(* 'close' is emitted on the request context of request r *)
TwoClose(r) ==
  /\ req[r].finishing = "pending"
  /\ req' = [req EXCEPT ![r].finishing = "emitted",
                        ![r].sigs = Append(@, Sig("close", NoErr))]
  /\ UNCHANGED <<flag, invokerVars, authVars, kind, chainVars, adapterVars, closeCount>>

(* handlerFn returns for request r: the race subscribes, the adapter awaits *)
TwoHandlerReturn(r) ==
  /\ req[r].st = "handler"
  /\ req' = [req EXCEPT
               ![r].st = "racing",
               ![r].rq = RaceAttach(req[r].handling, req[r].finishing)]
  /\ UNCHANGED <<flag, invokerVars, authVars, kind, chainVars, adapterVars, closeCount>>

(* handlerFn throws for request r *)
TwoHandlerThrow(r, e) ==
  /\ req[r].st = "handler"
  /\ TwoSignals < MaxSignals
  /\ req' = [req EXCEPT
               ![r].st = "racing",
               ![r].handling = Settle(@, Rejected(e)),
               ![r].rq = RaceAttach(Settle(req[r].handling, Rejected(e)),
                                    req[r].finishing),
               ![r].sigs = Append(@, Sig("throw", e))]
  /\ UNCHANGED <<flag, invokerVars, authVars, kind, chainVars, adapterVars, closeCount>>

(* the promise of pEvent for request r settles *)
TwoFinishingSettle(r) ==
  /\ req[r].finishing = "emitted"
  /\ req[r].st # "handler"
  /\ req' = [req EXCEPT
               ![r].finishing = "resolved",
               ![r].rq = IF req[r].race.st = "pending"
                           THEN Append(@, "f") ELSE @]
  /\ UNCHANGED <<flag, invokerVars, authVars, kind, chainVars, adapterVars, closeCount>>

(* the first reaction of the race of request r runs *)
TwoRaceSettle(r) ==
  /\ req[r].rq # <<>>
  /\ req' = [req EXCEPT
               ![r].race = RaceTake(@, Head(req[r].rq), req[r].handling),
               ![r].rq = <<>>]
  /\ UNCHANGED <<flag, invokerVars, authVars, kind, chainVars, adapterVars, closeCount>>

(* `await Promise.race(...)` resumes in the invocation of request r *)
TwoResume(r) ==
  /\ req[r].st = "racing"
  /\ req[r].race.st # "pending"
  /\ LET what == AfterRace(req[r].race, flag[Slot(r)]) IN
       req' = [req EXCEPT
                 ![r].st = IF what = "next" THEN "next" ELSE "done",
                 ![r].nexts = IF what = "next" THEN @ + 1 ELSE @,
                 ![r].out = CASE what = "throw" -> Failed(req[r].race.e)
                              [] what = "next" -> @
                              [] what = "return" -> Returned(Response)]
  /\ UNCHANGED <<flag, invokerVars, authVars, kind, chainVars, adapterVars, closeCount>>

(* next() settles for request r: the adapter returns what it got *)
TwoNextReturns(r) ==
  /\ req[r].st = "next"
  /\ req' = [req EXCEPT ![r].st = "done",
                        ![r].out = AfterNext(Returned(Undefined))]
  /\ UNCHANGED <<flag, invokerVars, authVars, kind, chainVars, adapterVars, closeCount>>

(* ---------------------- options of an invoker call -------------------- *)
(* an optional value: unset stands for undefined *)
Some(v) == [set |-> TRUE, v |-> v]
UnsetName == [set |-> FALSE, v |-> ""]
UnsetGroups == [set |-> FALSE, v |-> <<>>]
(* a ?? b *)
Coalesce(a, b) == IF a.set THEN a ELSE b

MIDDLEWARE_EXTENSION_POINT == "middleware.defaultChain"
OtherPoint == "middleware.other"
DefaultGroups == <<"cors", "apiSpec", "">>
(* the shipped defaultOptions of InvokeMiddlewareProvider *)
ShippedOptions ==
  [extensionPoint |-> Some(MIDDLEWARE_EXTENSION_POINT),
   orderedGroups |-> Some(DefaultGroups)]

Points == {MIDDLEWARE_EXTENSION_POINT, OtherPoint}
Prefs == {<<>>, <<"apiSpec">>, <<"cors", "", "apiSpec">>}
(* options?: InvokeMiddlewareOptions of a call: none, or one that names    *)
(* the extension point, or one that gives the order of the groups          *)
CallOptions ==
  {[extensionPoint |-> UnsetName, orderedGroups |-> UnsetGroups]}
    \cup {[extensionPoint |-> Some(x), orderedGroups |-> UnsetGroups] :
            x \in Points}
    \cup {[extensionPoint |-> UnsetName, orderedGroups |-> Some(x)] :
            x \in Prefs}
OtherOptions ==
  [extensionPoint |-> Some(OtherPoint), orderedGroups |-> Some(<<"apiSpec">>)]
NoOptions == [extensionPoint |-> UnsetName, orderedGroups |-> UnsetGroups]
(* <<defaultOptions, extension-point tag of the invoker's binding>> *)
Setups ==
  {<<ShippedOptions, UnsetName>>,
   <<ShippedOptions, Some(OtherPoint)>>,
   <<OtherOptions, Some(MIDDLEWARE_EXTENSION_POINT)>>,
   <<NoOptions, UnsetName>>}

(* a provider that asks its own binding before the options of the call *)
valueExtensionPointTagFirst(o, tag, d) ==
  Coalesce(tag, Coalesce(o.extensionPoint, d.extensionPoint))

(* value(): options?.extensionPoint ?? binding tag ?? defaultOptions *)
valueExtensionPoint(o, tag, d) ==
  Coalesce(o.extensionPoint, Coalesce(tag, d.extensionPoint))

(* value(): options?.orderedGroups ?? defaultOptions.orderedGroups *)
valueOrderedGroups(o, d) == Coalesce(o.orderedGroups, d.orderedGroups)

(* invokeMiddleware: {extensionPoint = MIDDLEWARE_EXTENSION_POINT} *)
imExtensionPoint(x) == IF x.set THEN x.v ELSE MIDDLEWARE_EXTENSION_POINT

(* a comparator that falls back to the shipped order of the groups *)
imOrderedGroupsShipped(x) == IF x.set THEN x.v ELSE DefaultGroups

(* compareBindingsByTag('group', orderedGroups): no list is the empty one *)
imOrderedGroups(x) == IF x.set THEN x.v ELSE <<>>

(* a provider that keeps the orderedGroups of a call as its default *)
defaultOptionsKept(o, d) ==
  [d EXCEPT !.orderedGroups = Coalesce(o.orderedGroups, @)]

(* value() reads this.defaultOptions and never assigns it *)
defaultOptionsAfter(o, d) == d

(* a provider that turns a failure of the chain into an empty result *)
actionSwallow(r) == IF r.t = "err" THEN Returned(Undefined) ELSE r

(* action(): hands back what invokeMiddleware returned or threw *)
action(r) == r

(* -------------------- discovery and group ordering -------------------- *)
RECURSIVE Discover(_, _)
(* the bindings of the context that extend the extension point ep *)
Discover(bs, ep) ==
  IF bs = <<>> THEN <<>>
  ELSE IF Head(bs).ep = Some(ep)
         THEN <<Head(bs)>> \o Discover(Tail(bs), ep)
         ELSE Discover(Tail(bs), ep)

IndexOf(pref, g) ==
  IF \E n \in 1..Len(pref) : pref[n] = g
    THEN CHOOSE n \in 1..Len(pref) :
           pref[n] = g /\ \A m \in 1..(n - 1) : pref[m] # g
    ELSE 0

(* a resolver that puts the groups the preference leaves out first *)
RankFirst(pref, g) == IndexOf(pref, g)

(* place of a group in the preference: its own, else that of the          *)
(* empty-string group, else behind every listed group                      *)
Rank(pref, g) ==
  IF IndexOf(pref, g) # 0 THEN IndexOf(pref, g)
  ELSE IF IndexOf(pref, "") # 0 THEN IndexOf(pref, "")
  ELSE Len(pref) + 1

(* the group tag of a binding; a binding without the tag is ungrouped *)
GroupOf(b) == b.group.v

RECURSIVE InsertByRank(_, _, _)
(* insert b behind every entry whose rank is not greater: a stable sort *)
InsertByRank(sorted, b, pref) ==
  IF sorted = <<>> THEN <<b>>
  ELSE IF Rank(pref, GroupOf(Head(sorted))) <= Rank(pref, GroupOf(b))
         THEN <<Head(sorted)>> \o InsertByRank(Tail(sorted), b, pref)
         ELSE <<b>> \o sorted

RECURSIVE ResolveFrom(_, _, _)
ResolveFrom(sorted, rest, pref) ==
  IF rest = <<>> THEN sorted
  ELSE ResolveFrom(InsertByRank(sorted, Head(rest), pref), Tail(rest), pref)

(* a resolver that leaves the entries as discovered *)
ResolveDiscovery(entries, pref) == entries

(* resolve(entries, preference) *)
Resolve(entries, pref) == ResolveFrom(<<>>, entries, pref)

KeysOf(bs) == [n \in 1..Len(bs) |-> bs[n].key]

(* ------------------------------ registry ------------------------------ *)
DiscoveryError == Val("DiscoveryError", 0)
AssertionError == Val("AssertionError", 0)
NoValue == [kind |-> "none", of |-> "", cfg |-> UnsetName]
NoBinding == [key |-> "", group |-> UnsetName, ep |-> UnsetName,
              val |-> NoValue]
(* the arguments of a registration call that its result is judged by *)
Args(fn, f, cfg, inject, key) ==
  [fn |-> fn, factory |-> f, cfg |-> cfg, inject |-> inject, key |-> key]
NoArgs == Args("", "", UnsetName, FALSE, UnsetName)
NoReg == [t |-> "none", b |-> NoBinding, args |-> NoArgs]
Bound(b, a) == [t |-> "binding", b |-> b, args |-> a]
Threw(a) == [t |-> "threw", b |-> NoBinding, args |-> a]
Unbound(k) ==
  [t |-> "unbound", b |-> NoBinding,
   args |-> Args("unbind", "", UnsetName, FALSE, Some(k))]

HasKey(bs, k) == \E n \in 1..Len(bs) : bs[n].key = k

(* ctx.bind(key) / ctx.add(binding): the binding joins the registry *)
CtxAdd(bs, b) == Append(bs, b)

RECURSIVE CtxUnbind(_, _)
(* ctx.unbind(key) *)
CtxUnbind(bs, k) ==
  IF bs = <<>> THEN <<>>
  ELSE IF Head(bs).key = k THEN Tail(bs)
  ELSE <<Head(bs)>> \o CtxUnbind(Tail(bs), k)

(* asMiddleware(options): the extension point and the group tag *)
asMiddlewarePoint(o) ==
  Some(IF o.extensionPointName.set THEN o.extensionPointName.v
       ELSE MIDDLEWARE_EXTENSION_POINT)

(* an asMiddleware that tags like the interceptor registration does *)
asMiddlewareGroupNamed(o) ==
  Some(IF o.group.set THEN o.group.v ELSE "middleware")

(* asMiddleware(options): tag({group: options.group ?? ''}) *)
asMiddlewareGroup(o) == Some(IF o.group.set THEN o.group.v ELSE "")

(* createBindingFromClass(cls, {namespace: 'middleware', key}) *)
ClassKey(m, o) == IF o.key.set THEN o.key.v ELSE "middleware." \o m.name

(* what registerMiddleware binds a middleware function to *)
NativeValue(m) == [kind |-> "native", of |-> m.name, cfg |-> UnsetName]

MwOptions(k, g, e) == [key |-> k, group |-> g, extensionPointName |-> e]
Fn(n) == [provider |-> FALSE, name |-> n]
Class(n) == [provider |-> TRUE, name |-> n]
Reg(m, o) == [middleware |-> m, options |-> o]
(* the registrations an application makes *)
RegA == Reg(Fn("A"), MwOptions(Some("mw.A"), Some("cors"), UnsetName))
RegB == Reg(Fn("B"), MwOptions(Some("mw.B"), UnsetName, UnsetName))
RegC ==
  Reg(Class("C"),
      MwOptions(UnsetName, Some("apiSpec"), Some(MIDDLEWARE_EXTENSION_POINT)))
RegD == Reg(Fn("D"), MwOptions(Some("mw.D"), Some("auth"), UnsetName))
RegF == Reg(Fn("F"), MwOptions(Some("mw.F"), Some("cors"), UnsetName))
RegG == Reg(Fn("G"), MwOptions(Some("mw.G"), Some("cors"), Some(OtherPoint)))
RegNoKey == Reg(Fn("N"), MwOptions(UnsetName, Some("cors"), UnsetName))
Registrations == {RegA, RegB, RegC, RegD, RegF, RegG}

(* the binding registerMiddleware builds *)
MiddlewareBinding(m, o) ==
  [key |-> IF m.provider THEN ClassKey(m, o) ELSE o.key.v,
   group |-> asMiddlewareGroup(o),
   ep |-> asMiddlewarePoint(o),
   val |-> NativeValue(m)]

MwArgs(m, o) == Args("registerMiddleware", m.name, UnsetName, FALSE, o.key)

(* a registerMiddleware that binds before it looks at the key *)
registerMiddlewareBindFirst(m, o) ==
  /\ Len(ctx) < MaxBindings
  /\ IF ~m.provider /\ ~o.key.set
       THEN /\ lastReg' = Threw(MwArgs(m, o))
            /\ ctx' = CtxAdd(ctx, [MiddlewareBinding(m, o) EXCEPT !.key = ""])
       ELSE /\ ~HasKey(ctx, MiddlewareBinding(m, o).key)
            /\ ctx' = CtxAdd(ctx, MiddlewareBinding(m, o))
            /\ lastReg' = Bound(MiddlewareBinding(m, o), MwArgs(m, o))
  /\ UNCHANGED <<defaultOptions, bindingTag, call, overrides>>
  /\ UNCHANGED <<kind, chainVars, adapterVars, closeCount, twoVars, authVars>>

(* registerMiddleware(ctx, middleware, options) *)
registerMiddleware(m, o) ==
  /\ Len(ctx) < MaxBindings
  /\ IF ~m.provider /\ ~o.key.set
       THEN /\ lastReg' = Threw(MwArgs(m, o))
            /\ UNCHANGED ctx
       ELSE /\ ~HasKey(ctx, MiddlewareBinding(m, o).key)
            /\ ctx' = CtxAdd(ctx, MiddlewareBinding(m, o))
            /\ lastReg' = Bound(MiddlewareBinding(m, o), MwArgs(m, o))
  /\ UNCHANGED <<defaultOptions, bindingTag, call, overrides>>
  /\ UNCHANGED <<kind, chainVars, adapterVars, closeCount, twoVars, authVars>>

(* ctx.unbind(key) *)
Unbind(k) ==
  /\ HasKey(ctx, k)
  /\ ctx' = CtxUnbind(ctx, k)
  /\ lastReg' = Unbound(k)
  /\ UNCHANGED <<defaultOptions, bindingTag, call, overrides>>
  /\ UNCHANGED <<kind, chainVars, adapterVars, closeCount, twoVars, authVars>>

(* ------------------- Express middleware as interceptor ---------------- *)
GlobalInterceptors == "globalInterceptors"
(* the handler a factory makes of a configuration, wrapped by toInterceptor *)
toInterceptorOf(f, cfg) == [kind |-> "legacy", of |-> f, cfg |-> cfg]

(* a createInterceptor that calls the factory without the configuration *)
createInterceptorNoConfig(f, cfg) == toInterceptorOf(f, UnsetName)

(* createInterceptor: toInterceptor(middlewareFactory(middlewareConfig)) *)
createInterceptor(f, cfg) == toInterceptorOf(f, cfg)

(* buildName(middlewareFactory, providedName) *)
buildName(f, provided) == IF provided.set THEN provided.v ELSE f

(* options of registerExpressMiddlewareInterceptor *)
RiOptions(inject, key, global) ==
  [injectConfiguration |-> inject, key |-> key, global |-> global,
   group |-> UnsetName, providerClassName |-> UnsetName]
UnsetFlag == [set |-> FALSE, v |-> FALSE]
(* {injectConfiguration: true, global: true, group: 'middleware', ...} *)
riInject(o) == IF o.injectConfiguration.set THEN o.injectConfiguration.v
               ELSE TRUE
riGlobal(o) == IF o.global.set THEN o.global.v ELSE TRUE
riGroup(o) == IF o.group.set THEN o.group.v ELSE "middleware"

(* the key of the binding in the mode without injection, "" when none *)
riKey(f, o) ==
  IF o.key.set THEN o.key.v
  ELSE IF buildName(f, UnsetName) # "" THEN
    "interceptors." \o buildName(f, UnsetName)
  ELSE ""

(* binding.tag(...); binding.apply(asGlobalInterceptor(options.group)) *)
riTagged(b, o) ==
  IF riGlobal(o)
    THEN [b EXCEPT !.ep = Some(GlobalInterceptors), !.group = Some(riGroup(o))]
    ELSE b

(* ctx.bind(key).to(createInterceptor(factory, config)) and its tags *)
riValueBinding(f, cfg, o) ==
  riTagged([key |-> riKey(f, o), group |-> UnsetName, ep |-> UnsetName,
            val |-> createInterceptor(f, cfg)], o)

(* createMiddlewareInterceptorBinding(providerClass, options) *)
riClassBinding(f, o) ==
  riTagged([key |-> "interceptors." \o buildName(f, o.providerClassName),
            group |-> UnsetName, ep |-> UnsetName,
            val |-> [kind |-> "provider",
                     of |-> buildName(f, o.providerClassName),
                     cfg |-> UnsetName]], o)

(* ctx.configure(binding.key).to(middlewareConfig) *)
riConfigBinding(k, cfg) ==
  [key |-> k \o ":$config", group |-> UnsetName, ep |-> UnsetName,
   val |-> [kind |-> "config", of |-> "", cfg |-> cfg]]

RiArgs(f, cfg, o) ==
  Args("registerExpressMiddlewareInterceptor", f, cfg, riInject(o), o.key)

(* registerExpressMiddlewareInterceptor(ctx, factory, config, options) *)
registerExpressMiddlewareInterceptor(f, cfg, o) ==
  /\ IF ~riInject(o)
       THEN IF riKey(f, o) = ""
              THEN /\ lastReg' = Threw(RiArgs(f, cfg, o))
                   /\ UNCHANGED ctx
              ELSE /\ Len(ctx) < MaxBindings
                   /\ ~HasKey(ctx, riKey(f, o))
                   /\ ctx' = CtxAdd(ctx, riValueBinding(f, cfg, o))
                   /\ lastReg' = Bound(riValueBinding(f, cfg, o),
                                       RiArgs(f, cfg, o))
       ELSE IF buildName(f, o.providerClassName) = ""
              THEN /\ lastReg' = Threw(RiArgs(f, cfg, o))
                   /\ UNCHANGED ctx
              ELSE LET b == riClassBinding(f, o)
                   IN /\ ~HasKey(ctx, b.key)
                      /\ ~HasKey(ctx, b.key \o ":$config")
                      /\ Len(ctx) + (IF cfg.set THEN 2 ELSE 1) <= MaxBindings
                      /\ ctx' = IF cfg.set
                                  THEN CtxAdd(CtxAdd(ctx, b),
                                              riConfigBinding(b.key, cfg.v))
                                  ELSE CtxAdd(ctx, b)
                      /\ lastReg' = Bound(b, RiArgs(f, cfg, o))
  /\ UNCHANGED <<defaultOptions, bindingTag, call, overrides>>
  /\ UNCHANGED <<kind, chainVars, adapterVars, closeCount, twoVars, authVars>>

(* -------------------- Express middleware as middleware ---------------- *)
(* options of registerExpressMiddleware *)
ReOptions(inject, key) ==
  [injectConfiguration |-> inject, key |-> key, group |-> UnsetName,
   extensionPointName |-> UnsetName, providerClassName |-> UnsetName]

(* `let key = options.key; if (!key) {... key = `interceptors.${name}`}`:  *)
(* a local of registerExpressMiddleware                                    *)
reLocalKey(f, o) == riKey(f, o)

(* the options registerExpressMiddleware hands to registerMiddleware: its  *)
(* own options object, in which the local key is not stored                *)
rePassed(o, key) == o

(* createMiddleware(factory, config): createInterceptor(factory, config) *)
createMiddleware(f, cfg) == createInterceptor(f, cfg)

(* registerMiddleware for a middleware function: ctx.bind(options.key)     *)
(*   .to(middleware).apply(asMiddleware(options))                          *)
reValueBinding(f, cfg, o) ==
  [key |-> o.key.v, group |-> asMiddlewareGroup(o),
   ep |-> asMiddlewarePoint(o), val |-> createMiddleware(f, cfg)]

(* registerMiddleware for the provider class: createMiddlewareBinding *)
reClassBinding(f, o) ==
  [key |-> ClassKey(Class(buildName(f, o.providerClassName)), o),
   group |-> asMiddlewareGroup(o), ep |-> asMiddlewarePoint(o),
   val |-> [kind |-> "provider", of |-> buildName(f, o.providerClassName),
            cfg |-> UnsetName]]

ReArgs(f, cfg, o) ==
  Args("registerExpressMiddleware", f, cfg, riInject(o), o.key)

(* registerExpressMiddleware(ctx, factory, config, options) *)
registerExpressMiddleware(f, cfg, o) ==
  /\ IF ~riInject(o)
       THEN LET p == rePassed(o, reLocalKey(f, o)) IN
            IF ~p.key.set
              THEN /\ lastReg' = Threw(ReArgs(f, cfg, o))
                   /\ UNCHANGED ctx
              ELSE /\ Len(ctx) < MaxBindings
                   /\ ~HasKey(ctx, p.key.v)
                   /\ ctx' = CtxAdd(ctx, reValueBinding(f, cfg, p))
                   /\ lastReg' = Bound(reValueBinding(f, cfg, p),
                                       ReArgs(f, cfg, o))
       ELSE IF buildName(f, o.providerClassName) = ""
              THEN /\ lastReg' = Threw(ReArgs(f, cfg, o))
                   /\ UNCHANGED ctx
              ELSE LET b == reClassBinding(f, o)
                   IN /\ ~HasKey(ctx, b.key)
                      /\ ~HasKey(ctx, b.key \o ":$config")
                      /\ Len(ctx) + (IF cfg.set THEN 2 ELSE 1) <= MaxBindings
                      /\ ctx' = IF cfg.set
                                  THEN CtxAdd(CtxAdd(ctx, b),
                                              riConfigBinding(b.key, cfg.v))
                                  ELSE CtxAdd(ctx, b)
                      /\ lastReg' = Bound(b, ReArgs(f, cfg, o))
  /\ UNCHANGED <<defaultOptions, bindingTag, call, overrides>>
  /\ UNCHANGED <<kind, chainVars, adapterVars, closeCount, twoVars, authVars>>

(* ------------------------------- invoker ------------------------------ *)
IdleCall ==
  [st |-> "idle", opts |-> NoOptions, ep |-> "", pref |-> <<>>,
   failed |-> FALSE, disc |-> <<>>, order |-> <<>>, ran |-> <<>>,
   late |-> FALSE, res |-> NoOutcome]

(* a chain that reads the registry again each time it moves on *)
ChainListLive(c) == Resolve(Discover(ctx, c.ep), c.pref)

(* the entries a chain execution runs: the list it was constructed with *)
ChainList(c) == c.order

(* the registry no longer holds what the call discovered *)
Moved(c) == Discover(ctx, c.ep) # c.disc

(* the function returned by value(), called with (requestCtx, options):    *)
(* action -> invokeMiddleware -> new MiddlewareChain -> invokeInterceptors *)
Invoke(o) ==
  /\ call.st # "running"
  /\ LET ep == imExtensionPoint(
                 valueExtensionPoint(o, bindingTag, defaultOptions))
         pref == imOrderedGroups(valueOrderedGroups(o, defaultOptions))
         disc == Discover(ctx, ep)
         order == Resolve(disc, pref)
     IN call' = [st |-> IF order = <<>> THEN "done" ELSE "running",
                 opts |-> o, ep |-> ep, pref |-> pref, failed |-> FALSE,
                 disc |-> disc, order |-> order,
                 ran |-> IF order = <<>> THEN <<>> ELSE <<order[1]>>,
                 late |-> FALSE,
                 res |-> IF order = <<>> THEN action(Returned(Undefined))
                         ELSE NoOutcome]
  /\ overrides' = (overrides \/ o.orderedGroups.set)
  /\ defaultOptions' = defaultOptionsAfter(o, defaultOptions)
  /\ UNCHANGED <<ctx, bindingTag, lastReg>>
  /\ UNCHANGED <<kind, chainVars, adapterVars, closeCount, twoVars, authVars>>

FailOptions ==
  {o \in CallOptions : ~o.extensionPoint.set /\ o.orderedGroups \in
                         {UnsetGroups, Some(<<>>)}}

(* the same call when the registry fails to enumerate the entries *)
InvokeDiscoveryFails(o) ==
  /\ call.st # "running"
  /\ LET ep == imExtensionPoint(
                 valueExtensionPoint(o, bindingTag, defaultOptions))
         pref == imOrderedGroups(valueOrderedGroups(o, defaultOptions))
     IN call' = [st |-> "done", opts |-> o, ep |-> ep, pref |-> pref,
                 failed |-> TRUE, disc |-> <<>>, order |-> <<>>, ran |-> <<>>,
                 late |-> FALSE,
                 res |-> action(Failed(DiscoveryError))]
  /\ overrides' = (overrides \/ o.orderedGroups.set)
  /\ defaultOptions' = defaultOptionsAfter(o, defaultOptions)
  /\ UNCHANGED <<ctx, bindingTag, lastReg>>
  /\ UNCHANGED <<kind, chainVars, adapterVars, closeCount, twoVars, authVars>>

(* the entry that runs calls next(): the chain starts the entry after it,  *)
(* or completes when there is none                                         *)
EntryNext ==
  /\ call.st = "running"
  /\ LET chain == ChainList(call)
         n == Len(call.ran)
     IN IF n < Len(chain)
          THEN call' = [call EXCEPT !.ran = Append(@, chain[n + 1]),
                                    !.late = @ \/ Moved(call)]
          ELSE call' = [call EXCEPT !.st = "done",
                                    !.res = action(Returned(Undefined))]
  /\ UNCHANGED <<ctx, defaultOptions, bindingTag, overrides, lastReg>>
  /\ UNCHANGED <<kind, chainVars, adapterVars, closeCount, twoVars, authVars>>

(* the entry that runs returns or throws without calling next() *)
EntryStop(r) ==
  /\ call.st = "running"
  /\ call' = [call EXCEPT !.st = "done", !.res = action(r)]
  /\ UNCHANGED <<ctx, defaultOptions, bindingTag, overrides, lastReg>>
  /\ UNCHANGED <<kind, chainVars, adapterVars, closeCount, twoVars, authVars>>

StopResults == {Returned(Response), Failed(Val("thrown", 1))}

(* ---------------------------- specification --------------------------- *)
ChainIdle ==
  /\ chainState = "NotStarted"
  /\ cursor = 0
  /\ result = NoOutcome
  /\ status = [i \in Idx |-> "idle"]
  /\ started = [i \in Idx |-> 0]
  /\ nextCount = [i \in Idx |-> 0]
  /\ received = [i \in Idx |-> NoOutcome]
  /\ outcome = [i \in Idx |-> NoOutcome]
  /\ settled = [i \in Idx |-> 0]
  /\ toProceed = [i \in Idx |-> FALSE]
  /\ handling = [i \in Idx |-> Pending]
  /\ finishing = [i \in Idx |-> "none"]
  /\ race = [i \in Idx |-> Pending]
  /\ rq = [i \in Idx |-> <<>>]
  /\ log = [i \in Idx |-> <<>>]
  /\ closeCount = 0

InvokerIdle ==
  /\ ctx = <<>>
  /\ call = IdleCall
  /\ overrides = FALSE
  /\ lastReg = NoReg

TwoIdle ==
  /\ req = [r \in Requests |-> IdleReq]
  /\ flag = [r \in Requests |-> FALSE]

(* no call of verify has been made *)
IdleAuth == [st |-> "idle", username |-> "", found |-> <<>>, err |-> ""]
AuthIdle ==
  /\ repo = {}
  /\ auth = IdleAuth
  /\ doneLog = <<>>

Init ==
  /\ kind \in [Idx -> Kinds]
  /\ ChainIdle
  /\ InvokerIdle
  /\ defaultOptions = ShippedOptions
  /\ bindingTag = UnsetName
  /\ TwoIdle
  /\ AuthIdle

Next ==
  \/ invokeMiddleware
  \/ Close
  \/ \E i \in Idx : NativeCallNext(i)
  \/ \E i \in Idx : NativeCallNextAgain(i)
  \/ \E i \in Idx : NativeReturn(i)
  \/ \E i \in Idx : NativeThrow(i)
  \/ \E i \in Idx : AdapterStart(i)
  \/ \E i \in Idx : \E err \in {NoErr} \cup HandlerErrs : Callback(i, err)
  \/ \E i \in Idx : HandlerReturn(i)
  \/ \E i \in Idx : \E e \in ThrownErrs : HandlerThrow(i, e)
  \/ \E i \in Idx : FinishingSettle(i)
  \/ \E i \in Idx : RaceSettle(i)
  \/ \E i \in Idx : AdapterResume(i)
  \/ \E i \in Idx : AdapterReturn(i)

Spec == Init /\ [][Next]_vars

(* the invoker over a registry that is set up before the first call *)
InitInvoke ==
  /\ kind = [i \in Idx |-> "native"]
  /\ ChainIdle
  /\ InvokerIdle
  /\ \E su \in Setups : defaultOptions = su[1] /\ bindingTag = su[2]
  /\ TwoIdle
  /\ AuthIdle

NextInvoke ==
  \/ \E e \in Registrations :
       call.st = "idle" /\ registerMiddleware(e.middleware, e.options)
  \/ \E o \in CallOptions : Invoke(o)
  \/ \E o \in FailOptions : InvokeDiscoveryFails(o)
  \/ EntryNext
  \/ \E r \in StopResults : EntryStop(r)

SpecInvoke == InitInvoke /\ [][NextInvoke]_vars

(* the invoker over a registry that changes while a call is in flight *)
LateRegistrations == {RegA, RegB, RegF}
LateOptions ==
  {o \in CallOptions : ~o.extensionPoint.set /\ o.orderedGroups \in
                         {UnsetGroups, Some(<<>>)}}

NextSnapshot ==
  \/ \E e \in LateRegistrations :
       registerMiddleware(e.middleware, e.options)
  \/ \E e \in LateRegistrations :
       Unbind(MiddlewareBinding(e.middleware, e.options).key)
  \/ \E o \in LateOptions : Invoke(o)
  \/ EntryNext
  \/ \E r \in StopResults : EntryStop(r)

SpecSnapshot == InitInvoke /\ [][NextSnapshot]_vars

(* one adapter and one invoker serving two requests *)
InitTwo ==
  /\ kind = [i \in Idx |-> "legacy"]
  /\ ChainIdle
  /\ InvokerIdle
  /\ defaultOptions = ShippedOptions
  /\ bindingTag = UnsetName
  /\ TwoIdle
  /\ AuthIdle

NextTwo ==
  \/ \E r \in Requests : TwoStart(r)
  \/ \E r \in Requests : \E err \in {NoErr} \cup HandlerErrs :
       TwoCallback(r, err)
  \/ \E r \in Requests : TwoClose(r)
  \/ \E r \in Requests : TwoHandlerReturn(r)
  \/ \E r \in Requests : \E e \in ThrownErrs : TwoHandlerThrow(r, e)
  \/ \E r \in Requests : TwoFinishingSettle(r)
  \/ \E r \in Requests : TwoRaceSettle(r)
  \/ \E r \in Requests : TwoResume(r)
  \/ \E r \in Requests : TwoNextReturns(r)

SpecTwo == InitTwo /\ [][NextTwo]_vars

(* the registration surface on its own *)
Factories == {"spy", ""}
SpyConfigs == {UnsetName, Some("log"), Some("mock"), Some("reject")}
SpyKey == "interceptors.middleware.spy"
RiOptionSets ==
  {RiOptions(i, k, g) :
     i \in {UnsetFlag, [set |-> TRUE, v |-> FALSE]},
     k \in {UnsetName, Some(SpyKey)},
     g \in {UnsetFlag, [set |-> TRUE, v |-> FALSE]}}
SetupRegistrations == {RegA, RegNoKey}
BoundKeys == {ctx[n].key : n \in 1..Len(ctx)}

InitRegister ==
  /\ kind = [i \in Idx |-> "native"]
  /\ ChainIdle
  /\ InvokerIdle
  /\ defaultOptions = ShippedOptions
  /\ bindingTag = UnsetName
  /\ TwoIdle
  /\ AuthIdle

NextRegister ==
  \/ \E f \in Factories : \E cfg \in SpyConfigs : \E o \in RiOptionSets :
       registerExpressMiddlewareInterceptor(f, cfg, o)
  \/ \E e \in SetupRegistrations :
       registerMiddleware(e.middleware, e.options)
  \/ \E k \in BoundKeys : Unbind(k)

SpecRegister == InitRegister /\ [][NextRegister]_vars

(* the three registration functions side by side *)
ReOptionSets ==
  {ReOptions(i, k) :
     i \in {UnsetFlag, [set |-> TRUE, v |-> FALSE]},
     k \in {UnsetName, Some(SpyKey)}}
ReConfigs == {UnsetName, Some("log")}
RiPlainOptions == {o \in RiOptionSets : ~o.global.set}

NextExpress ==
  \/ \E f \in Factories : \E cfg \in ReConfigs : \E o \in ReOptionSets :
       registerExpressMiddleware(f, cfg, o)
  \/ \E f \in Factories : \E cfg \in ReConfigs : \E o \in RiPlainOptions :
       registerExpressMiddlewareInterceptor(f, cfg, o)
  \/ \E e \in SetupRegistrations :
       registerMiddleware(e.middleware, e.options)
  \/ \E k \in BoundKeys : Unbind(k)

SpecExpress == InitRegister /\ [][NextExpress]_vars

(* ----------------------- LocalAuthStrategy.verify --------------------- *)
(* users are numbered in the order the repository returns them *)
UserIds == 1..NumUsers
EmailOf(u) == IF u % 2 = 1 THEN "a@x" ELSE "b@x"
Usernames == {"a@x", "b@x", "c@x"}
LookupErrors == {"db"}
NoMatch == "User Name / Password not matching"

(* userRepository.find({where: {email: username}}) when it resolves *)
RECURSIVE FindFrom(_, _, _)
FindFrom(users, username, u) ==
  IF u > NumUsers THEN <<>>
  ELSE (IF u \in users /\ EmailOf(u) = username THEN <<u>> ELSE <<>>)
       \o FindFrom(users, username, u + 1)
find(users, username) == FindFrom(users, username, 1)

(* one invocation of done; err "" and user 0 stand for null, info "" for *)
(* an argument that is not passed                                        *)
DoneCall(err, user, info, threw) ==
  [err |-> err, user |-> user, info |-> info, threw |-> threw]

AuthOver == auth.st \in {"idle", "settled", "unhandled"}

(* verify(username, password, done): starts the lookup and returns *)
Verify(username) ==
  /\ AuthOver
  /\ auth' = [IdleAuth EXCEPT !.st = "finding", !.username = username]
  /\ doneLog' = <<>>
  /\ UNCHANGED <<repo, invokerVars, twoVars, kind, chainVars, adapterVars,
                 closeCount>>

(* the promise of find resolves with the matching users *)
FindResolves ==
  /\ auth.st = "finding"
  /\ auth' = [auth EXCEPT !.st = "then",
                          !.found = find(repo, auth.username)]
  /\ UNCHANGED <<repo, doneLog, invokerVars, twoVars, kind, chainVars,
                 adapterVars, closeCount>>

(* the promise of find rejects; then() passes the rejection on to catch() *)
FindRejects(e) ==
  /\ auth.st = "finding"
  /\ auth' = [auth EXCEPT !.st = "catch", !.err = e]
  /\ UNCHANGED <<repo, doneLog, invokerVars, twoVars, kind, chainVars,
                 adapterVars, closeCount>>

(* the callback given to then(): done(null, null, {message}) for an empty *)
(* result, done(null, user[0]) otherwise. A throw of done rejects the     *)
(* promise then() returned, which is the promise catch() is chained to.   *)
ThenCallback(threw) ==
  /\ auth.st = "then"
  /\ doneLog' =
       Append(doneLog,
              IF Len(auth.found) = 0
                THEN DoneCall("", 0, NoMatch, threw)
                ELSE DoneCall("", auth.found[1], "", threw))
  /\ auth' = IF threw
               THEN [auth EXCEPT !.st = "catch", !.err = "thrown by done"]
               ELSE [auth EXCEPT !.st = "settled"]
  /\ UNCHANGED <<repo, invokerVars, twoVars, kind, chainVars, adapterVars,
                 closeCount>>

(* the callback given to catch(): done(err) *)
CatchCallback(threw) ==
  /\ auth.st = "catch"
  /\ doneLog' = Append(doneLog, DoneCall(auth.err, 0, "", threw))
  /\ auth' = [auth EXCEPT !.st = IF threw THEN "unhandled" ELSE "settled"]
  /\ UNCHANGED <<repo, invokerVars, twoVars, kind, chainVars, adapterVars,
                 closeCount>>

InitVerify ==
  /\ kind = [i \in Idx |-> "native"]
  /\ ChainIdle
  /\ InvokerIdle
  /\ defaultOptions = ShippedOptions
  /\ bindingTag = UnsetName
  /\ TwoIdle
  /\ repo \in SUBSET UserIds
  /\ auth = IdleAuth
  /\ doneLog = <<>>

NextVerify ==
  \/ \E username \in Usernames : Verify(username)
  \/ FindResolves
  \/ \E e \in LookupErrors : FindRejects(e)
  \/ \E threw \in BOOLEAN : ThenCallback(threw)
  \/ \E threw \in BOOLEAN : CatchCallback(threw)

SpecVerify == InitVerify /\ [][NextVerify]_vars

(* ------------------------------ properties ---------------------------- *)
Legacy(i) == kind[i] = "legacy"
Seen(i, k) == Pos(i, {k}) # {}
Min(S) == CHOOSE x \in S : \A y \in S : x <= y
(* the first callback invocation or throw of entry i's handler *)
FirstHandlerSignal(i) == log[i][Min(Pos(i, HandlerKinds))]
FirstIs(i, ks) == log[i] # <<>> /\ log[i][1].k \in ks
Before(i, ks, k) ==
  \E n \in Pos(i, ks) : \E m \in Pos(i, {k}) : n < m

(* C1: proceed path. When the handler's signal is its callback invoked     *)
(* with no error and no close has fired, the adapter, once resumed, has    *)
(* invoked next() exactly once, and what it returns or throws is exactly   *)
(* what that next() call delivered.                                        *)
C1_ProceedPath ==
  \A i \in Idx :
    (/\ Legacy(i)
     /\ Pos(i, HandlerKinds) # {}
     /\ FirstHandlerSignal(i).k = "ok"
     /\ ~Seen(i, "close"))
    => /\ nextCount[i] <= 1
       /\ Seen(i, "resume") => nextCount[i] = 1
       /\ status[i] = "done" =>
            /\ received[i] # NoOutcome
            /\ outcome[i] = received[i]

C1_Witness ==
  \E i \in Idx :
    /\ Legacy(i)
    /\ status[i] = "done"
    /\ log[i] = <<Sig("ok", NoErr), Sig("resume", NoErr)>>
    /\ nextCount[i] = 1
    /\ outcome[i].t = "val"
    /\ outcome[i] = received[i]

(* C2: close path. When close has fired and the handler has neither        *)
(* invoked its callback nor thrown, the adapter has not invoked next(),    *)
(* and once done its result is the response object; the entry after it     *)
(* has not been started.                                                   *)
C2_ClosePath ==
  \A i \in Idx :
    (/\ Legacy(i)
     /\ Seen(i, "close")
     /\ Pos(i, HandlerKinds) = {})
    => /\ nextCount[i] = 0
       /\ status[i] = "done" => outcome[i] = Returned(Response)
       /\ \A j \in Idx : j > i => started[j] = 0

C2_Witness ==
  \E i \in Idx :
    /\ Legacy(i)
    /\ i < NumEntries
    /\ status[i] = "done"
    /\ Seen(i, "close")
    /\ Pos(i, HandlerKinds) = {}
    /\ outcome[i] = Returned(Response)
    /\ started[i + 1] = 0

(* C3: close-first latch. Whenever `finishing` settled before the          *)
(* handler's callback first fired or the handler threw, the adapter never  *)
(* invokes next(), also when the callback fires with no error afterwards.  *)
C3_CloseFirstLatch ==
  \A i \in Idx :
    (/\ Legacy(i)
     /\ Seen(i, "fin")
     /\ \A n \in Pos(i, HandlerKinds) : Min(Pos(i, {"fin"})) < n)
    => nextCount[i] = 0

(* C4: for one adapter invocation and any sequence of signals, next() is   *)
(* invoked at most once and the adapter settles (returns or throws) at     *)
(* most once, so at most one error reaches its caller.                     *)
C4_AtMostOnce ==
  \A i \in Idx :
    Legacy(i) => /\ nextCount[i] <= 1
                 /\ settled[i] <= 1
                 /\ Cardinality(Pos(i, {"resume"})) <= 1

C4_Witness ==
  \E i \in Idx :
    /\ Legacy(i)
    /\ status[i] = "done"
    /\ Cardinality(Pos(i, {"ok"})) >= 2
    /\ Seen(i, "close")
    /\ nextCount[i] = 1
    /\ settled[i] = 1

(* C5: error path. When the first signal is the callback invoked with an   *)
(* error, or the handler throwing, the adapter never invokes next() and    *)
(* fails with exactly that error, whatever signals follow.                 *)
C5_ErrorPath ==
  \A i \in Idx :
    (Legacy(i) /\ FirstIs(i, {"err", "throw"}))
    => /\ nextCount[i] = 0
       /\ status[i] = "done" => outcome[i] = Failed(log[i][1].e)

C5_Witness ==
  \E i \in Idx :
    /\ Legacy(i)
    /\ status[i] = "done"
    /\ FirstIs(i, {"err"})
    /\ Before(i, {"ok", "close"}, "resume")
    /\ outcome[i] = Failed(log[i][1].e)

(* C6: proceed-first latch. When the first signal is the callback invoked  *)
(* with no error and a close or an error callback follows, the adapter,    *)
(* once resumed, has invoked next() exactly once and its outcome is what   *)
(* next() delivered.                                                       *)
C6_ProceedFirstLatch ==
  \A i \in Idx :
    (/\ Legacy(i)
     /\ FirstIs(i, {"ok"})
     /\ (Seen(i, "close") \/ Seen(i, "err")))
    => /\ nextCount[i] <= 1
       /\ Seen(i, "resume") => nextCount[i] = 1
       /\ status[i] = "done" =>
            /\ received[i] # NoOutcome
            /\ outcome[i] = received[i]

C6_Witness ==
  \E i \in Idx :
    /\ Legacy(i)
    /\ status[i] = "done"
    /\ FirstIs(i, {"ok"})
    /\ Before(i, {"err"}, "resume")
    /\ Before(i, {"fin"}, "resume")
    /\ nextCount[i] = 1
    /\ outcome[i] = received[i]

(* C7: no timeout. An adapter that has resumed from the race, invoked      *)
(* next() or settled has seen a signal: a callback, a throw of the handler *)
(* or a close. With no signal it stays suspended in the race.              *)
C7_NoTimeout ==
  \A i \in Idx :
    (/\ Legacy(i)
     /\ \/ status[i] \in {"awaitNext", "resumed", "done"}
        \/ nextCount[i] > 0
        \/ settled[i] > 0
        \/ race[i].st # "pending")
    => Pos(i, HandlerKinds \cup {"close"}) # {}

C7_Witness ==
  \E i \in Idx :
    /\ Legacy(i)
    /\ status[i] = "racing"
    /\ log[i] = <<>>
    /\ race[i] = Pending
    /\ nextCount[i] = 0

(* C8: short-circuit. If an entry has returned a result without invoking   *)
(* next(), no entry after it was ever invoked and its result is what its   *)
(* caller received.                                                        *)
C8_ShortCircuit ==
  \A i \in Idx :
    (status[i] = "done" /\ nextCount[i] = 0 /\ outcome[i].t = "val")
    => /\ \A j \in Idx : j > i => started[j] = 0
       /\ IF i = 1 THEN result = outcome[i]
                   ELSE received[i - 1] = outcome[i]

C8_Witness ==
  \E i \in Idx :
    /\ i < NumEntries
    /\ status[i] = "done"
    /\ nextCount[i] = 0
    /\ outcome[i].t = "val"
    /\ started[i + 1] = 0
    /\ chainState = "ShortCircuited"

(* entries that are running their own code, not suspended in next() *)
Active == {i \in Idx : status[i] \notin {"idle", "awaitNext", "done"}}

(* C9: the cursor only moves forward; an entry is invoked at most once,    *)
(* entry i+1 only after entry i invoked next(), entries are started in     *)
(* order, and at most one entry of the chain runs at a time.               *)
C9_CursorForward ==
  /\ [](\A i \in Idx :
          /\ started[i] <= 1
          /\ started[i] > 0 <=> i <= cursor
          /\ (i > 1 /\ started[i] > 0) => nextCount[i - 1] >= 1)
  /\ [](Cardinality(Active) <= 1)
  /\ [][cursor' >= cursor]_vars

C9_Witness ==
  /\ cursor = NumEntries
  /\ \A i \in Idx : started[i] = 1 /\ nextCount[i] = 1
  /\ chainState = "Completed"

(* C10: single invocation. If an entry has invoked next() a second time,   *)
(* the chain execution has failed with InvalidChainUsage and every entry   *)
(* after it was invoked at most once.                                      *)
C10_SingleInvocation ==
  \A i \in Idx :
    nextCount[i] >= 2
    => /\ chainState = "Errored"
       /\ result = Failed(InvalidChainUsage)
       /\ \A j \in Idx : j > i => started[j] <= 1

C10_Witness ==
  \E i \in Idx :
    /\ i < NumEntries
    /\ nextCount[i] = 2
    /\ started[i + 1] = 1
    /\ result = Failed(InvalidChainUsage)

(* C11: error propagation. An error with which entry i settles is what    *)
(* the next() call of entry i-1 receives; a legacy adapter that receives   *)
(* an error from next() fails with that same error; an entry that raised   *)
(* without invoking next() has no entry after it invoked; and the error    *)
(* with which the first entry settles is the failure of the invoker call.  *)
C11_ErrorPropagation ==
  \A i \in Idx :
    /\ (i > 1 /\ status[i] = "done" /\ outcome[i].t = "err")
         => received[i - 1] = outcome[i]
    /\ (Legacy(i) /\ status[i] = "done" /\ received[i].t = "err")
         => outcome[i] = received[i]
    /\ (status[i] = "done" /\ outcome[i].t = "err" /\ nextCount[i] = 0)
         => \A j \in Idx : j > i => started[j] = 0
    /\ (i = 1 /\ status[i] = "done" /\ outcome[i].t = "err")
         => result = outcome[i] /\ chainState = "Errored"

C11_Witness ==
  /\ NumEntries >= 2
  /\ Legacy(1)
  /\ status[1] = "done"
  /\ status[NumEntries] = "done"
  /\ outcome[NumEntries].t = "err"
  /\ nextCount[NumEntries] = 0
  /\ \A i \in Idx : outcome[i] = outcome[NumEntries]
  /\ result = outcome[NumEntries]

(* ------------------- properties of the invoker ------------------------ *)
Called == call.st \in {"running", "done"}
Listed(pref, g) == IndexOf(pref, g) # 0
PosOf(seq, b) == CHOOSE n \in 1..Len(seq) : seq[n] = b
IsPrefix(x, y) == Len(x) <= Len(y) /\ x = SubSeq(y, 1, Len(x))
SameEntries(x, y) ==
  /\ Len(x) = Len(y)
  /\ \A n \in 1..Len(x) : \E m \in 1..Len(y) : x[n] = y[m]
(* the call has run its entries one after the other down to the last *)
RanAll == call.st = "done" /\ call.ran = call.order /\ call.ran # <<>>

(* C12: the entries of a call run in the resolved order, which holds the   *)
(* discovered entries, each once; of two entries of listed groups the one  *)
(* whose group comes first in the preference runs first; two entries of    *)
(* the same group, listed or not, run in the order in which they were      *)
(* discovered, which is the order in which they were registered; and       *)
(* A (cors), B (''), C (apiSpec) registered as B, C, A run as A, C, B      *)
(* under the preference [cors, apiSpec, ''].                               *)
C12_GroupOrder ==
  Called =>
    /\ IsPrefix(call.ran, call.order)
    /\ SameEntries(call.order, call.disc)
    /\ \A m, n \in 1..Len(call.order) :
         LET a == call.order[m]
             b == call.order[n]
         IN /\ ( /\ Listed(call.pref, GroupOf(a))
                 /\ Listed(call.pref, GroupOf(b))
                 /\ IndexOf(call.pref, GroupOf(a))
                      < IndexOf(call.pref, GroupOf(b)) ) => m < n
            /\ ( /\ GroupOf(a) = GroupOf(b)
                 /\ PosOf(call.disc, a) < PosOf(call.disc, b) )
                 => m < n /\ PosOf(ctx, a) < PosOf(ctx, b)
    /\ ( /\ KeysOf(call.disc) = <<"mw.B", "middleware.C", "mw.A">>
         /\ call.pref = DefaultGroups )
         => KeysOf(call.order) = <<"mw.A", "middleware.C", "mw.B">>

C12_Witness ==
  /\ RanAll
  /\ KeysOf(ctx) = <<"mw.B", "middleware.C", "mw.A">>
  /\ call.pref = DefaultGroups
  /\ KeysOf(call.ran) = <<"mw.A", "middleware.C", "mw.B">>

(* C13: an entry whose group the preference leaves out runs after every    *)
(* entry of a listed group when the preference has no empty-string group,  *)
(* and at the place of the empty-string group when it has one: before the  *)
(* entries of the groups listed after the marker, after those of the       *)
(* groups listed before it; the entries left out keep their discovery      *)
(* order among themselves.                                                 *)
C13_UnlistedPlacement ==
  Called =>
    /\ IsPrefix(call.ran, call.order)
    /\ \A m, n \in 1..Len(call.order) :
         LET a == call.order[m]
             b == call.order[n]
             marker == IndexOf(call.pref, "")
         IN ~Listed(call.pref, GroupOf(a)) =>
              /\ (Listed(call.pref, GroupOf(b)) /\ marker = 0) => n < m
              /\ ( /\ Listed(call.pref, GroupOf(b)) /\ marker # 0
                   /\ IndexOf(call.pref, GroupOf(b)) < marker ) => n < m
              /\ ( /\ Listed(call.pref, GroupOf(b)) /\ marker # 0
                   /\ IndexOf(call.pref, GroupOf(b)) > marker ) => m < n
              /\ ( /\ ~Listed(call.pref, GroupOf(b))
                   /\ PosOf(call.disc, a) < PosOf(call.disc, b) ) => m < n

C13_Witness ==
  /\ RanAll
  /\ call.pref = DefaultGroups
  /\ KeysOf(call.disc) = <<"mw.D", "middleware.C", "mw.A">>
  /\ KeysOf(call.ran) = <<"mw.A", "middleware.C", "mw.D">>

(* C14: a call whose options carry an empty orderedGroups list, and a call *)
(* that reaches invokeMiddleware with no orderedGroups at all, run the     *)
(* entries in the order in which they were discovered.                     *)
C14_EmptyPreference ==
  Called =>
    /\ ( \/ call.opts.orderedGroups = Some(<<>>)
         \/ ( /\ ~call.opts.orderedGroups.set
              /\ ~defaultOptions.orderedGroups.set ) )
         => call.order = call.disc /\ IsPrefix(call.ran, call.disc)
    /\ call.pref = <<>> => call.order = call.disc

C14_Witness ==
  /\ RanAll
  /\ call.opts.orderedGroups = Some(<<>>)
  /\ defaultOptions = ShippedOptions
  /\ KeysOf(call.ran) = <<"mw.B", "mw.D", "mw.A">>

(* C15: a call that carries orderedGroups runs under exactly that          *)
(* preference, a call that carries none runs under the configured default  *)
(* ([cors, apiSpec, ''] as shipped, none at all when the configuration     *)
(* clears it), and no step changes the configured default options.         *)
ExpectedPreference ==
  IF call.opts.orderedGroups.set THEN call.opts.orderedGroups.v
  ELSE IF defaultOptions.orderedGroups.set THEN defaultOptions.orderedGroups.v
  ELSE <<>>

C15_Override ==
  /\ [](Called => call.pref = ExpectedPreference)
  /\ [][defaultOptions' = defaultOptions]_vars

C15_Witness ==
  /\ RanAll
  /\ overrides
  /\ ~call.opts.orderedGroups.set
  /\ defaultOptions = ShippedOptions
  /\ call.pref = DefaultGroups
  /\ KeysOf(call.disc) = <<"mw.B", "mw.A">>
  /\ KeysOf(call.ran) = <<"mw.A", "mw.B">>

(* C16: a call discovers the entries of options.extensionPoint when the    *)
(* call gives one, else of the extensionPoint tag of the invoker's binding *)
(* when it has one, else of the configured default, which is               *)
(* 'middleware.defaultChain' unless configured otherwise; it discovers     *)
(* every entry bound to that point and runs no entry bound to another.     *)
ExpectedPoint ==
  IF call.opts.extensionPoint.set THEN call.opts.extensionPoint.v
  ELSE IF bindingTag.set THEN bindingTag.v
  ELSE IF defaultOptions.extensionPoint.set THEN defaultOptions.extensionPoint.v
  ELSE "middleware.defaultChain"

C16_ExtensionPoint ==
  Called =>
    /\ call.ep = ExpectedPoint
    /\ \A n \in 1..Len(call.ran) : call.ran[n].ep = Some(ExpectedPoint)
    /\ ~call.failed =>
         \A n \in 1..Len(ctx) :
           (ctx[n].ep = Some(ExpectedPoint))
             <=> (\E m \in 1..Len(call.disc) : call.disc[m] = ctx[n])

C16_Witness ==
  /\ RanAll
  /\ ~call.opts.extensionPoint.set
  /\ bindingTag = Some(OtherPoint)
  /\ defaultOptions = ShippedOptions
  /\ KeysOf(ctx) = <<"mw.A", "mw.G", "mw.B">>
  /\ KeysOf(call.ran) = <<"mw.G">>

(* C19: a call whose discovery fails is over at once, its result is the    *)
(* failure of the discovery, and it has run no entry, whatever entries     *)
(* the extension point holds.                                              *)
C19_DiscoveryFailure ==
  (Called /\ call.failed) =>
    /\ call.st = "done"
    /\ call.res = Failed(DiscoveryError)
    /\ call.ran = <<>>

C19_Witness ==
  /\ call.st = "done"
  /\ call.failed
  /\ call.res = Failed(DiscoveryError)
  /\ call.ran = <<>>
  /\ Len(Discover(ctx, call.ep)) >= 2

(* C17: what a call runs is fixed when it discovers its entries: while the *)
(* call is in flight its list does not change, whatever is registered or   *)
(* removed meanwhile, and the entries it runs are the first ones of that   *)
(* list, in its order; a call that starts discovers what the registry      *)
(* holds at that moment.                                                   *)
C17_Snapshot ==
  /\ [](Called => IsPrefix(call.ran, call.order))
  /\ [][call.st = "running" =>
          /\ call'.disc = call.disc
          /\ call'.order = call.order
          /\ IsPrefix(call.ran, call'.ran)]_vars
  /\ [][(call.st # "running" /\ call'.st # "idle" /\ call' # call
          /\ ~call'.failed)
          => /\ call'.disc = Discover(ctx, call'.ep)
             /\ SameEntries(call'.order, call'.disc)]_vars

C17_Witness ==
  /\ RanAll
  /\ call.late
  /\ KeysOf(call.ran) = <<"mw.A", "mw.B">>
  /\ KeysOf(ctx) = <<"mw.A", "mw.F">>

(* C20: a call of registerExpressMiddlewareInterceptor with                *)
(* injectConfiguration false and an options.key returns a binding, adds    *)
(* that binding and nothing else to the context, the key of the binding is *)
(* options.key, and its value is the legacy adapter of the handler that    *)
(* the factory makes of the configuration of the call.                     *)
RegisteredByKey(r) ==
  /\ r.args.fn = "registerExpressMiddlewareInterceptor"
  /\ ~r.args.inject
  /\ r.args.key.set

C20_InterceptorByKey ==
  /\ []((RegisteredByKey(lastReg)) =>
         /\ lastReg.t = "binding"
         /\ lastReg.b.key = lastReg.args.key.v
         /\ lastReg.b.val
              = toInterceptorOf(lastReg.args.factory, lastReg.args.cfg)
         /\ Cardinality({n \in 1..Len(ctx) : ctx[n] = lastReg.b}) = 1
         /\ Cardinality({n \in 1..Len(ctx) :
                           ctx[n].key = lastReg.args.key.v}) = 1)
  /\ [][(RegisteredByKey(lastReg') /\ <<ctx, lastReg>> # <<ctx', lastReg'>>)
          => ctx' = Append(ctx, lastReg'.b)]_vars

C20_Witness ==
  /\ RegisteredByKey(lastReg)
  /\ lastReg.t = "binding"
  /\ lastReg.args.cfg = Some("mock")
  /\ lastReg.b.key = SpyKey
  /\ Len(ctx) = 2
  /\ ctx[2] = lastReg.b
  /\ ctx[2].val = toInterceptorOf("spy", Some("mock"))

(* C18: in each of two requests served by the same adapter, next() is      *)
(* invoked only after a callback without error of that request, an error   *)
(* is raised only if that request's handler gave it or threw it, and the   *)
(* response is returned without next() only after the close of that        *)
(* request; a request that has had no signal of its own has done nothing.  *)
OwnSignal(r, ks) == \E n \in 1..Len(req[r].sigs) : req[r].sigs[n].k \in ks

C18_Independence ==
  \A r \in Requests :
    /\ req[r].nexts > 0 => OwnSignal(r, {"ok"})
    /\ req[r].out.t = "err" =>
         \E n \in 1..Len(req[r].sigs) :
           /\ req[r].sigs[n].k \in {"err", "throw"}
           /\ req[r].sigs[n].e = req[r].out.v
    /\ (req[r].st = "done" /\ req[r].nexts = 0 /\ req[r].out.t # "err")
         => req[r].out = Returned(Response) /\ OwnSignal(r, {"close"})
    /\ req[r].sigs = <<>> => req[r].nexts = 0 /\ req[r].out = NoOutcome

C18_Witness ==
  /\ req[2].overlap
  /\ req[1].st = "next"
  /\ req[1].sigs = <<Sig("ok", NoErr)>>
  /\ req[2].st = "done"
  /\ req[2].sigs = <<Sig("close", NoErr)>>
  /\ req[2].out = Returned(Response)
  /\ req[2].nexts = 0

(* C21: every binding made by registerMiddleware carries the group of its  *)
(* options, the empty-string group when they give none, and extends the    *)
(* extension point of its options, 'middleware.defaultChain' when they     *)
(* give none; a middleware registered with neither of the two is           *)
(* discovered by a call without options of the invoker as shipped, and     *)
(* that call places it behind every cors and apiSpec entry.                *)
Plain(e) == ~e.options.group.set /\ ~e.options.extensionPointName.set
AsShipped == defaultOptions = ShippedOptions /\ ~bindingTag.set

C22_StartOrder ==
  /\ [](\A i \in Idx :
         /\ HandlerStarted(i) => finishing[i] # "none"
         /\ Legacy(i) => started[i] <= 1
         /\ (Legacy(i) /\ status[i] = "racing" /\ finishing[i] = "resolved")
              => race[i].st # "pending" \/ rq[i] # <<>>)
  /\ [][\A i \in Idx :
          /\ (Legacy(i) /\ status'[i] = "handler" /\ status[i] # "handler")
               => status[i] = "init"
          /\ (Legacy(i) /\ status[i] \notin {"idle", "init"})
               => status'[i] \notin {"idle", "init", "handler"}
                    \/ status'[i] = status[i]
          /\ (status[i] = "handler" /\ Legacy(i) /\ closeCount' > closeCount)
               => /\ finishing'[i] \in {"emitted", "resolved"}
                  /\ finishing[i] = "pending"
                       => /\ finishing'[i] = "emitted"
                          /\ log'[i] = Append(log[i], Sig("close", NoErr))
          /\ finishing[i] = "emitted"
               => finishing'[i] \in {"emitted", "resolved"}
          /\ finishing[i] = "resolved" => finishing'[i] = "resolved"]_vars

C22_Witness ==
  \E i \in Idx :
    /\ Legacy(i)
    /\ status[i] = "handler"
    /\ started[i] = 1
    /\ finishing[i] = "emitted"
    /\ log[i] = <<Sig("close", NoErr)>>

(* C23: registerExpressMiddleware, called with injectConfiguration false   *)
(* and no options.key for a factory that has a name, returns a binding     *)
(* whose key is 'interceptors.<name>', and the context holds that binding. *)
DerivedKeyCase(r) ==
  /\ r.args.fn = "registerExpressMiddleware"
  /\ ~r.args.inject
  /\ ~r.args.key.set
  /\ r.args.factory # ""

C23_DerivedKey ==
  DerivedKeyCase(lastReg) =>
    /\ lastReg.t = "binding"
    /\ lastReg.b.key = "interceptors." \o lastReg.args.factory
    /\ \E n \in 1..Len(ctx) : ctx[n] = lastReg.b

(* C24: a registration call that fails an assertion changes nothing in the *)
(* context, so every extension point holds the entries it held before;     *)
(* and the calls that lack a name or a key do fail: the two Express        *)
(* registrations in injecting mode for a factory without a name, the       *)
(* interceptor registration without injection, name and key, and           *)
(* registerMiddleware for a function without options.key.                  *)
MustFail(r) ==
  \/ /\ r.args.fn \in {"registerExpressMiddleware",
                        "registerExpressMiddlewareInterceptor"}
     /\ r.args.inject
     /\ r.args.factory = ""
  \/ /\ r.args.fn = "registerExpressMiddlewareInterceptor"
     /\ ~r.args.inject
     /\ r.args.factory = ""
     /\ ~r.args.key.set
  \/ \E g \in SetupRegistrations :
       /\ ~g.middleware.provider
       /\ ~g.options.key.set
       /\ r.args = MwArgs(g.middleware, g.options)

C24_FailedRegistration ==
  /\ [](MustFail(lastReg) => lastReg.t = "threw")
  /\ [][lastReg'.t = "threw" =>
          /\ ctx' = ctx
          /\ \A ep \in Points : Discover(ctx', ep) = Discover(ctx, ep)]_vars

C24_Witness ==
  /\ lastReg.t = "threw"
  /\ lastReg.args.fn = "registerExpressMiddlewareInterceptor"
  /\ lastReg.args.inject
  /\ KeysOf(ctx) = <<"mw.A", SpyKey>>

(* C25: verify invokes done exactly once for each call: with (null, null, *)
(* message) when the lookup finds no user, with (null, first user) when   *)
(* it finds one or more, with (err) when it rejects; and done is not      *)
(* invoked again when its first invocation throws.                        *)
C25_DoneOnce ==
  /\ Len(doneLog) <= 1
  /\ auth.st \in {"settled", "unhandled"} =>
       /\ Len(doneLog) = 1
       /\ doneLog[1].err = auth.err
       /\ auth.err = "" =>
            /\ doneLog[1].user =
                 (IF Len(auth.found) = 0 THEN 0 ELSE auth.found[1])
            /\ doneLog[1].info = (IF Len(auth.found) = 0 THEN NoMatch ELSE "")

====
